---------------------------- MODULE Spec2Model ----------------------------
(***************************************************************************)
(* A model of adni_metadata_extractor.py: the scan-type classifier         *)
(* (extract_scan_type), the metadata record builder (parse_xml_metadata   *)
(* and its three helpers), the folder walk with its caps                   *)
(* (process_metadata_folders), the report writer (create_detailed_excel)   *)
(* and main.                                                               *)
(*                                                                         *)
(* File names and XML texts are TLA+ strings; substring tests are real     *)
(* substring searches.  Python values are tagged records; a float is held  *)
(* in tenths (72.5 is Float(725)), which is the resolution of every text   *)
(* the model feeds to float().                                             *)
(***************************************************************************)
EXTENDS Integers, Sequences, FiniteSets, TLC

VARIABLES
    \* ---- main(): one extractor, one run, one report
    runs,               \* how many times process_metadata_folders was called
    pc,                 \* position of main / process_metadata_folders
    base_exists,        \* whether self.base_path is an existing directory
    max_files_per_type, \* the cap argument: None or IntV(c)
    selected_folders,   \* the --folders argument: None or List(selectors)
    sel_idx,            \* index of the selector the resolution loop is at
    folders_to_process, \* leaf folders found so far, in order
    invalid_folders,    \* selectors that resolved to no leaf folder
    folder_idx,         \* index of the leaf folder being walked
    xml_files,          \* the files of the current leaf folder (glob result)
    file_idx,           \* index of the next file of xml_files
    type_counts,        \* the per-type counter (a defaultdict(int))
    processed_count,    \* the run's processed counter
    scan_type_data,     \* the bucket collection (a defaultdict(list))
    parse_calls,        \* the files parse_xml_metadata was invoked on, in order
    classify_calls,     \* the files extract_scan_type was invoked on by the walk
    skipped,            \* the files the per-type cap check skipped
    raised,             \* whether an exception left process_metadata_folders
    writer_opened,      \* whether pd.ExcelWriter was ever opened
    file_created,       \* whether the output workbook exists
    summary_data,       \* the rows of the scan_type_summary sheet
    output_file,        \* what create_detailed_excel returned
    printed,            \* what main printed last
    \* ---- the classifier alone
    cl_path, cl_result,
    \* ---- the record builder alone
    px_doc, px_result

main_vars == <<runs, pc, base_exists, max_files_per_type, selected_folders, sel_idx,
               folders_to_process, invalid_folders, folder_idx, xml_files,
               file_idx, type_counts, processed_count, scan_type_data,
               parse_calls, classify_calls, skipped, raised, writer_opened,
               file_created, summary_data, output_file, printed>>
cl_vars == <<cl_path, cl_result>>
px_vars == <<px_doc, px_result>>
vars == <<main_vars, cl_vars, px_vars>>

---------------------------------------------------------------------------
(* Python values *)

None == [t |-> "NoneType"]
Str(s) == [t |-> "str", v |-> s]
Float(n) == [t |-> "float", v |-> n]          \* n is the value in tenths
IntV(n) == [t |-> "int", v |-> n]
List(q) == [t |-> "list", v |-> q]
Raise == [t |-> "Exception"]                 \* an exception in flight

\* bool(v) for the values the program tests for truth
Truthy(v) ==
    IF v = None THEN FALSE
    ELSE IF DOMAIN v = {"t", "v"} /\ v.t \in {"float", "int"} THEN v.v # 0
    ELSE IF DOMAIN v = {"t", "v"} /\ v.t = "str" THEN v.v # ""
    ELSE IF DOMAIN v = {"t", "v"} /\ v.t = "list" THEN v.v # <<>>
    ELSE DOMAIN v # {}

\* d[k] = v on a dict
SetItem(d, k, v) == [x \in DOMAIN d \cup {k} |-> IF x = k THEN v ELSE d[x]]
\* d.get(k)
Get(d, k) == IF k \in DOMAIN d THEN d[k] ELSE None
EmptyDict == [x \in {} |-> None]

---------------------------------------------------------------------------
(* Strings *)

\* m in s
Contains(s, m) ==
    \E i \in 1..(Len(s) - Len(m) + 1) : SubSeq(s, i, i + Len(m) - 1) = m

\* os.path.basename: what follows the last "/"
basename(p) ==
    LET slashes == {i \in 1..Len(p) : SubSeq(p, i, i) = "/"}
        last == IF slashes = {} THEN 0
                ELSE CHOOSE i \in slashes : \A j \in slashes : j <= i
    IN SubSeq(p, last + 1, Len(p))

Digits == <<"0", "1", "2", "3", "4", "5", "6", "7", "8", "9">>
IsDigit(c) == \E d \in 1..10 : Digits[d] = c
DigitVal(c) == (CHOOSE d \in 1..10 : Digits[d] = c) - 1
AllDigits(s) == Len(s) > 0 /\ \A i \in 1..Len(s) : IsDigit(SubSeq(s, i, i))

RECURSIVE NatOf(_)
NatOf(s) ==
    IF Len(s) = 0 THEN 0
    ELSE 10 * NatOf(SubSeq(s, 1, Len(s) - 1)) + DigitVal(SubSeq(s, Len(s), Len(s)))

\* float(text): the text None is a TypeError, a text that is no decimal
\* numeral a ValueError; both are Raise.  A numeral is digits, optionally
\* with one "." and digits on at least one side of it ("7", "7.5", "7.",
\* ".5").  Values are held in tenths, so the texts the model draws carry at
\* most one fractional digit; a longer fraction is outside its resolution.
float(text) ==
    IF text = None THEN Raise
    ELSE LET s == text.v
             dots == {i \in 1..Len(s) : SubSeq(s, i, i) = "."}
         IN IF dots = {} THEN
                 IF AllDigits(s) THEN Float(10 * NatOf(s)) ELSE Raise
            ELSE LET d == CHOOSE i \in dots : TRUE
                     ip == SubSeq(s, 1, d - 1)
                     fp == SubSeq(s, d + 1, Len(s))
                 IN IF /\ Cardinality(dots) = 1
                       /\ Len(ip) + Len(fp) > 0
                       /\ (Len(ip) = 0 \/ AllDigits(ip))
                       /\ (Len(fp) = 0 \/ (AllDigits(fp) /\ Len(fp) = 1))
                    THEN Float(10 * NatOf(ip) + NatOf(fp))
                    ELSE Raise

\* int(f) on a float: truncation
int(f) == IF f = Raise THEN Raise ELSE IntV(f.v \div 10)

---------------------------------------------------------------------------
(* extract_scan_type *)

\* extract_scan_type with the MPR branch not looking for FLAIR
extract_scan_type_mpr_blind(xml_file_path) ==
    LET filename == basename(xml_file_path)
    IN IF Contains(filename, "FDG") THEN "PET_FDG"
       ELSE IF Contains(filename, "FBB") \/ Contains(filename, "Florbetaben")
            THEN "PET_FBB"
       ELSE IF Contains(filename, "AV45") \/ Contains(filename, "florbetapir")
            THEN "PET_AV45"
       ELSE IF Contains(filename, "Tau") \/ Contains(filename, "AV1451")
               \/ Contains(filename, "FLORTAUCIPIR")
            THEN "PET_TAU"
       ELSE IF Contains(filename, "PET") THEN "PET_OTHER"
       ELSE IF Contains(filename, "MPR") THEN "MRI_MPRAGE"
       ELSE IF Contains(filename, "FLAIR") THEN "MRI_FLAIR"
       ELSE IF Contains(filename, "DTI") THEN "MRI_DTI"
       ELSE IF Contains(filename, "rsfMRI") \/ Contains(filename, "fMRI")
            THEN "MRI_fMRI"
       ELSE IF Contains(filename, "ASL") THEN "MRI_ASL"
       ELSE IF Contains(filename, "T2") THEN "MRI_T2"
       ELSE "OTHER"

\* extract_scan_type matching the whole path instead of the base name, and
\* testing T2 before ASL
extract_scan_type_reordered(xml_file_path) ==
    LET filename == xml_file_path
    IN IF Contains(filename, "FDG") THEN "PET_FDG"
       ELSE IF Contains(filename, "FBB") \/ Contains(filename, "Florbetaben")
            THEN "PET_FBB"
       ELSE IF Contains(filename, "AV45") \/ Contains(filename, "florbetapir")
            THEN "PET_AV45"
       ELSE IF Contains(filename, "Tau") \/ Contains(filename, "AV1451")
               \/ Contains(filename, "FLORTAUCIPIR")
            THEN "PET_TAU"
       ELSE IF Contains(filename, "PET") THEN "PET_OTHER"
       ELSE IF Contains(filename, "MPR") THEN
                IF Contains(filename, "FLAIR") THEN "MRI_FLAIR"
                ELSE "MRI_MPRAGE"
       ELSE IF Contains(filename, "FLAIR") THEN "MRI_FLAIR"
       ELSE IF Contains(filename, "DTI") THEN "MRI_DTI"
       ELSE IF Contains(filename, "rsfMRI") \/ Contains(filename, "fMRI")
            THEN "MRI_fMRI"
       ELSE IF Contains(filename, "T2") THEN "MRI_T2"
       ELSE IF Contains(filename, "ASL") THEN "MRI_ASL"
       ELSE "OTHER"

extract_scan_type(xml_file_path) ==
    LET filename == basename(xml_file_path)
    IN IF Contains(filename, "FDG") THEN "PET_FDG"
       ELSE IF Contains(filename, "FBB") \/ Contains(filename, "Florbetaben")
            THEN "PET_FBB"
       ELSE IF Contains(filename, "AV45") \/ Contains(filename, "florbetapir")
            THEN "PET_AV45"
       ELSE IF Contains(filename, "Tau") \/ Contains(filename, "AV1451")
               \/ Contains(filename, "FLORTAUCIPIR")
            THEN "PET_TAU"
       ELSE IF Contains(filename, "PET") THEN "PET_OTHER"
       ELSE IF Contains(filename, "MPR") THEN
                IF Contains(filename, "FLAIR") THEN "MRI_FLAIR"
                ELSE "MRI_MPRAGE"
       ELSE IF Contains(filename, "FLAIR") THEN "MRI_FLAIR"
       ELSE IF Contains(filename, "DTI") THEN "MRI_DTI"
       ELSE IF Contains(filename, "rsfMRI") \/ Contains(filename, "fMRI")
            THEN "MRI_fMRI"
       ELSE IF Contains(filename, "ASL") THEN "MRI_ASL"
       ELSE IF Contains(filename, "T2") THEN "MRI_T2"
       ELSE "OTHER"

---------------------------------------------------------------------------
(* XML documents                                                           *)
(*                                                                         *)
(* A document is a record of what the builder looks for: for a tag it      *)
(* takes with find(), the first such element or None; for a tag it takes   *)
(* with findall(), the elements in document order.  An element's text is   *)
(* Str(..) or, for an empty element, None.  wellformed = FALSE is a file   *)
(* ET.parse rejects.                                                       *)

Elem(text) == [text |-> text]
Info(item, text) == [item |-> item, text |-> text]
Score(attribute, text) == [attribute |-> attribute, text |-> text]
Assessment(name, scores) == [name |-> name, scores |-> scores]
\* a <protocol term=..>; underTerm: a child of a protocolTerm element;
\* underImaging: a descendant of an imagingProtocol element
Protocol(term, text, underTerm, underImaging) ==
    [term |-> term, text |-> text, underTerm |-> underTerm,
     underImaging |-> underImaging]
Provenance(process, program) == [process |-> process, program |-> program]

EmptyDoc ==
    [wellformed |-> TRUE,
     subjectIdentifier |-> None, researchGroup |-> None, subjectSex |-> None,
     subjectAge |-> None, weightKg |-> None, subjectInfo |-> <<>>,
     visitIdentifier |-> None, modality |-> None, dateAcquired |-> None,
     seriesIdentifier |-> None, assessment |-> <<>>, protocol |-> <<>>,
     processedDataLabel |-> None, provenanceDetail |-> <<>>]

\* x.text if x is not None else dflt
TextOr(x, dflt) == IF x # None THEN x.text ELSE dflt
\* float(x.text) if x is not None else None
FloatOrNone(x) == IF x # None THEN float(x.text) ELSE None
\* float(p.text) if p.text else None
FloatIfText(p) == IF Truthy(p.text) THEN float(p.text) ELSE None
\* int(float(p.text)) if p.text else None
IntIfText(p) == IF Truthy(p.text) THEN int(float(p.text)) ELSE None
\* metadata[k] = v, where evaluating v may have raised
Assign(metadata, k, v) ==
    IF metadata = Raise \/ v = Raise THEN Raise ELSE SetItem(metadata, k, v)

\* the APOE loop keeping the first match of each key instead of the last
RECURSIVE ApoeLoop_first_wins(_, _)
ApoeLoop_first_wins(apoe_elements, metadata) ==
    IF apoe_elements = <<>> \/ metadata = Raise THEN metadata
    ELSE LET apoe == Head(apoe_elements)
             next == IF Contains(apoe.item, "APOE A1")
                         THEN IF "apoe_a1" \in DOMAIN metadata THEN metadata
                              ELSE SetItem(metadata, "apoe_a1", apoe.text)
                     ELSE IF Contains(apoe.item, "APOE A2")
                         THEN IF "apoe_a2" \in DOMAIN metadata THEN metadata
                              ELSE SetItem(metadata, "apoe_a2", apoe.text)
                     ELSE metadata
         IN ApoeLoop_first_wins(Tail(apoe_elements), next)

\* the APOE loop of parse_xml_metadata
RECURSIVE ApoeLoop(_, _)
ApoeLoop(apoe_elements, metadata) ==
    IF apoe_elements = <<>> \/ metadata = Raise THEN metadata
    ELSE LET apoe == Head(apoe_elements)
             next == IF Contains(apoe.item, "APOE A1")
                         THEN SetItem(metadata, "apoe_a1", apoe.text)
                     ELSE IF Contains(apoe.item, "APOE A2")
                         THEN SetItem(metadata, "apoe_a2", apoe.text)
                     ELSE metadata
         IN ApoeLoop(Tail(apoe_elements), next)

\* assessment.find('.//assessmentScore[@attribute="a"]')
FindScore(assessment, a) ==
    LET hits == {i \in 1..Len(assessment.scores) :
                    assessment.scores[i].attribute = a}
    IN IF hits = {} THEN None
       ELSE assessment.scores[CHOOSE i \in hits : \A j \in hits : i <= j]

RECURSIVE _extract_clinical_scores(_, _)
_extract_clinical_scores(assessments, metadata) ==
    IF assessments = <<>> \/ metadata = Raise THEN metadata
    ELSE LET assessment == Head(assessments)
             name == assessment.name
             next ==
                 IF Contains(name, "MMSE") THEN
                     Assign(metadata, "mmse_score",
                            FloatOrNone(FindScore(assessment, "MMSCORE")))
                 ELSE IF Contains(name, "CDR") THEN
                     Assign(metadata, "cdr_score",
                            FloatOrNone(FindScore(assessment, "CDGLOBAL")))
                 ELSE IF Contains(name, "NPI") THEN
                     Assign(metadata, "npi_score",
                            FloatOrNone(FindScore(assessment, "NPISCORE")))
                 ELSE IF Contains(name, "FAQ") THEN
                     Assign(metadata, "faq_score",
                            FloatOrNone(FindScore(assessment, "FAQTOTAL")))
                 ELSE metadata
         IN _extract_clinical_scores(Tail(assessments), next)

\* the first loop of _extract_imaging_protocol
RECURSIVE ProtocolTermLoop(_, _)
ProtocolTermLoop(protocol_terms, metadata) ==
    IF protocol_terms = <<>> \/ metadata = Raise THEN metadata
    ELSE LET protocol == Head(protocol_terms)
             term == protocol.term
             next ==
                 IF term = "TE" THEN
                     Assign(metadata, "te_ms", FloatIfText(protocol))
                 ELSE IF term = "TR" THEN
                     Assign(metadata, "tr_ms", FloatIfText(protocol))
                 ELSE IF term = "Slice Thickness" THEN
                     Assign(metadata, "slice_thickness_mm", FloatIfText(protocol))
                 ELSE IF term = "Flip Angle" THEN
                     Assign(metadata, "flip_angle", FloatIfText(protocol))
                 ELSE IF term = "Manufacturer" THEN
                     Assign(metadata, "manufacturer", protocol.text)
                 ELSE IF term = "Mfg Model" THEN
                     Assign(metadata, "device_model", protocol.text)
                 ELSE IF term = "Field Strength" THEN
                     Assign(metadata, "field_strength_t", FloatIfText(protocol))
                 ELSE metadata
         IN ProtocolTermLoop(Tail(protocol_terms), next)

\* the second loop of _extract_imaging_protocol
RECURSIVE PetProtocolLoop(_, _)
PetProtocolLoop(pet_protocols, metadata) ==
    IF pet_protocols = <<>> \/ metadata = Raise THEN metadata
    ELSE LET protocol == Head(pet_protocols)
             term == protocol.term
             next ==
                 IF term = "Radiopharmaceutical" THEN
                     Assign(metadata, "radiopharmaceutical", protocol.text)
                 ELSE IF term = "Number of Rows" THEN
                     Assign(metadata, "num_rows", IntIfText(protocol))
                 ELSE IF term = "Number of Columns" THEN
                     Assign(metadata, "num_columns", IntIfText(protocol))
                 ELSE IF term = "Number of Slices" THEN
                     Assign(metadata, "num_slices", IntIfText(protocol))
                 ELSE IF term = "Pixel Spacing X" THEN
                     Assign(metadata, "pixel_spacing_x", FloatIfText(protocol))
                 ELSE IF term = "Pixel Spacing Y" THEN
                     Assign(metadata, "pixel_spacing_y", FloatIfText(protocol))
                 ELSE IF term = "Reconstruction" THEN
                     Assign(metadata, "reconstruction_method", protocol.text)
                 ELSE metadata
         IN PetProtocolLoop(Tail(pet_protocols), next)

RECURSIVE SelectSeq2(_, _)
SelectSeq2(s, which) ==
    IF s = <<>> THEN <<>>
    ELSE IF Head(s)[which] THEN <<Head(s)>> \o SelectSeq2(Tail(s), which)
    ELSE SelectSeq2(Tail(s), which)

_extract_imaging_protocol(root, metadata) ==
    LET protocol_terms == SelectSeq2(root.protocol, "underTerm")
        pet_protocols == SelectSeq2(root.protocol, "underImaging")
    IN PetProtocolLoop(pet_protocols, ProtocolTermLoop(protocol_terms, metadata))

\* f"{process.text}({program.text})"; a text of None prints as "None"
Format(text) == IF text = None THEN "None" ELSE text.v

RECURSIVE ProcessingSteps(_)
ProcessingSteps(provenance_details) ==
    IF provenance_details = <<>> THEN <<>>
    ELSE LET detail == Head(provenance_details)
             rest == ProcessingSteps(Tail(provenance_details))
         IN IF detail.process # None /\ detail.program # None
            THEN <<Format(detail.process.text) \o "("
                     \o Format(detail.program.text) \o ")">> \o rest
            ELSE rest

\* '; '.join(steps)
RECURSIVE Join(_)
Join(steps) ==
    IF steps = <<>> THEN ""
    ELSE IF Len(steps) = 1 THEN steps[1]
    ELSE steps[1] \o "; " \o Join(Tail(steps))

_extract_processing_info(root, metadata) ==
    IF metadata = Raise THEN Raise
    ELSE LET processed_label == root.processedDataLabel
             m1 == IF processed_label # None
                   THEN SetItem(metadata, "processing_label", processed_label.text)
                   ELSE metadata
             processing_steps == ProcessingSteps(root.provenanceDetail)
         IN SetItem(m1, "processing_steps",
                    IF processing_steps # <<>> THEN Str(Join(processing_steps))
                    ELSE Str("N/A"))

\* parse_xml_metadata: the record of the file at xml_file_path, whose
\* content is root; None when anything raised
parse_xml_metadata(xml_file_path, root) ==
    IF ~root.wellformed THEN None
    ELSE LET m0 == [filename |-> Str(basename(xml_file_path)),
                    scan_type |-> Str(extract_scan_type(xml_file_path)),
                    subject_id |-> TextOr(root.subjectIdentifier, Str("N/A")),
                    research_group |-> TextOr(root.researchGroup, Str("N/A")),
                    gender |-> TextOr(root.subjectSex, Str("N/A"))]
             m1 == Assign(m0, "age", FloatOrNone(root.subjectAge))
             m2 == Assign(m1, "weight_kg", FloatOrNone(root.weightKg))
             m3 == ApoeLoop(root.subjectInfo, m2)
             m4 == Assign(m3, "visit_type",
                          TextOr(root.visitIdentifier, Str("N/A")))
             m5 == Assign(m4, "modality", TextOr(root.modality, Str("N/A")))
             m6 == Assign(m5, "scan_date", TextOr(root.dateAcquired, Str("N/A")))
             m7 == Assign(m6, "series_id",
                          TextOr(root.seriesIdentifier, Str("N/A")))
             m8 == _extract_clinical_scores(root.assessment, m7)
             m9 == _extract_imaging_protocol(root, m8)
             m10 == _extract_processing_info(root, m9)
         IN IF m10 = Raise THEN None ELSE m10

---------------------------------------------------------------------------
(* Idle values of the three groups of variables *)

MainIdle ==
    /\ runs = 0
    /\ pc = "idle" /\ base_exists = TRUE /\ max_files_per_type = None
    /\ selected_folders = None /\ sel_idx = 0 /\ folders_to_process = <<>>
    /\ invalid_folders = <<>> /\ folder_idx = 0 /\ xml_files = <<>>
    /\ file_idx = 0 /\ type_counts = EmptyDict /\ processed_count = 0
    /\ scan_type_data = EmptyDict /\ parse_calls = <<>>
    /\ classify_calls = <<>> /\ skipped = <<>> /\ raised = FALSE
    /\ writer_opened = FALSE /\ file_created = FALSE
    /\ summary_data = EmptyDict
    /\ output_file = None /\ printed = ""
ClassifyIdle == cl_path = "" /\ cl_result = ""
Pending == [t |-> "pending"]                \* no result yet
ParseIdle == px_doc = None /\ px_result = Pending

---------------------------------------------------------------------------
(* The classifier alone: a path is drawn, extract_scan_type is applied *)

MaxParts == 3

\* every marker the classifier tests
Markers ==
    {"FDG", "FBB", "Florbetaben", "AV45", "florbetapir", "Tau", "AV1451",
     "FLORTAUCIPIR", "PET", "MPR", "FLAIR", "DTI", "rsfMRI", "fMRI", "ASL",
     "T2"}
\* the markers in the order the classifier tests them, then near misses
FragmentSeq ==
    <<"FDG", "FBB", "Florbetaben", "AV45", "florbetapir", "Tau", "AV1451",
      "FLORTAUCIPIR", "PET", "MPR", "FLAIR", "DTI", "rsfMRI", "fMRI", "ASL",
      "T2", "tau", "Flair", "T1", "MPRAGE">>
Reversed(q) == [i \in 1..Len(q) |-> q[Len(q) + 1 - i]]
Dirs == {"", "ADNI_PET_metadata/FDG_DTI/"}

\* the names made of at most n of the fragments q[k..], in q's order
RECURSIVE NamesOf(_, _, _)
NamesOf(q, k, n) ==
    IF n = 0 \/ k > Len(q) THEN {""}
    ELSE NamesOf(q, k + 1, n)
         \cup {"_" \o q[k] \o s : s \in NamesOf(q, k + 1, n - 1)}

ClassifyPaths ==
    {d \o "ADNI" \o s \o ".xml" :
        d \in Dirs,
        s \in NamesOf(FragmentSeq, 1, MaxParts)
              \cup NamesOf(Reversed(FragmentSeq), 1, MaxParts)}

ClassifyInit ==
    /\ MainIdle /\ ParseIdle
    /\ cl_path \in ClassifyPaths
    /\ cl_result = ""

Classify ==
    /\ cl_result = ""
    /\ cl_result' = extract_scan_type(cl_path)
    /\ UNCHANGED <<cl_path, main_vars, px_vars>>

ClassifyNext == Classify
SpecClassify == ClassifyInit /\ [][ClassifyNext]_vars

\* the markers of the PET rows of the predicate table
PetMarkers ==
    {"FDG", "FBB", "Florbetaben", "AV45", "florbetapir", "Tau", "AV1451",
     "FLORTAUCIPIR", "PET"}
Has(m) == Contains(basename(cl_path), m)
Classified == cl_result # ""

\* C4 as stated: every base name containing both "MPR" and "FLAIR" is
\* classified MRI_FLAIR, whatever other markers it contains.
C4_FlairWhateverElse ==
    (Classified /\ Has("MPR") /\ Has("FLAIR")) => cl_result = "MRI_FLAIR"

\* C4 as amended: a base name containing both "MPR" and "FLAIR" is never
\* classified MRI_MPRAGE, and is classified MRI_FLAIR whenever it contains
\* no marker of a PET row.
C4_FlairUnlessPet ==
    (Classified /\ Has("MPR") /\ Has("FLAIR")) =>
        /\ cl_result # "MRI_MPRAGE"
        /\ (\A m \in PetMarkers : ~Has(m)) => cl_result = "MRI_FLAIR"

\* C4's case: a name with MPR, FLAIR and a third, later-row marker
C4_Witness ==
    /\ Classified /\ Has("MPR") /\ Has("FLAIR") /\ Has("DTI")
    /\ cl_result = "MRI_FLAIR"

\* The predicate table of the classifier's contract, in evaluation order:
\* row i matches when its condition holds of the base name.
Vocabulary ==
    {"PET_FDG", "PET_FBB", "PET_AV45", "PET_TAU", "PET_OTHER", "MRI_FLAIR",
     "MRI_MPRAGE", "MRI_DTI", "MRI_fMRI", "MRI_ASL", "MRI_T2", "OTHER"}
RowMatches(i) ==
    CASE i = 1 -> Has("FDG")
      [] i = 2 -> Has("FBB") \/ Has("Florbetaben")
      [] i = 3 -> Has("AV45") \/ Has("florbetapir")
      [] i = 4 -> Has("Tau") \/ Has("AV1451") \/ Has("FLORTAUCIPIR")
      [] i = 5 -> Has("PET")
      [] i = 6 -> Has("MPR") /\ Has("FLAIR")
      [] i = 7 -> Has("MPR")
      [] i = 8 -> Has("FLAIR")
      [] i = 9 -> Has("DTI")
      [] i = 10 -> Has("rsfMRI") \/ Has("fMRI")
      [] i = 11 -> Has("ASL")
      [] i = 12 -> Has("T2")
      [] OTHER -> TRUE
RowLabel ==
    <<"PET_FDG", "PET_FBB", "PET_AV45", "PET_TAU", "PET_OTHER", "MRI_FLAIR",
      "MRI_MPRAGE", "MRI_FLAIR", "MRI_DTI", "MRI_fMRI", "MRI_ASL", "MRI_T2",
      "OTHER">>
TableRows == Len(RowLabel)
RECURSIVE FirstRowFrom(_)
FirstRowFrom(i) ==
    IF i = TableRows \/ RowMatches(i) THEN i ELSE FirstRowFrom(i + 1)
FirstMatch == RowLabel[FirstRowFrom(1)]

\* C5: extract_scan_type returns the label of the first matching row of the
\* 13-row table; the label is one of the 12 of the vocabulary; a PET-row
\* marker gives a PET label whatever MRI markers are present; and the label
\* is OTHER exactly when no marker occurs in the base name.
C5_FirstMatchWins ==
    Classified =>
        /\ cl_result = FirstMatch
        /\ cl_result \in Vocabulary
        /\ (\E m \in PetMarkers : Has(m)) =>
               cl_result \in {"PET_FDG", "PET_FBB", "PET_AV45", "PET_TAU",
                              "PET_OTHER"}
        /\ cl_result = "OTHER" <=> \A m \in Markers : ~Has(m)

\* C5's case: a PET marker of a late PET row together with MRI markers, under
\* a directory whose name holds earlier-row markers
C5_Witness ==
    /\ Classified /\ Has("PET") /\ Has("MPR") /\ Has("T2")
    /\ Contains(cl_path, "FDG") /\ ~Has("FDG")
    /\ cl_result = "PET_OTHER"

---------------------------------------------------------------------------
(* The record builder alone: a file is drawn, parse_xml_metadata is applied *)

MaxItems == 2

RECURSIVE SeqsUpTo(_, _)
SeqsUpTo(S, n) ==
    IF n = 0 THEN {<<>>}
    ELSE SeqsUpTo(S, n - 1)
         \cup {q \o <<x>> : q \in SeqsUpTo(S, n - 1), x \in S}

Maybe(text) == {None, Elem(Str(text))}

\* documents whose single elements are present or absent in every combination
ScalarDocs ==
    {[EmptyDoc EXCEPT
        !.subjectIdentifier = d.id, !.researchGroup = d.rg, !.subjectSex = d.sx,
        !.subjectAge = d.age, !.weightKg = d.wt, !.visitIdentifier = d.vi,
        !.modality = d.mo, !.dateAcquired = d.da, !.seriesIdentifier = d.se,
        !.processedDataLabel = d.pl] :
     d \in [id : Maybe("002_S_0295"), rg : Maybe("AD"), sx : Maybe("M"),
            age : Maybe("72.5") \cup {Elem(Str("0")), Elem(Str("abc")), Elem(None)},
            wt : Maybe("80.3"), vi : Maybe("ADNI Baseline"), mo : Maybe("MRI"),
            da : Maybe("2006-04-18"), se : Maybe("13722"),
            pl : Maybe("MPR; GradWarp; N3")]}

InfoSamples ==
    {Info("APOE A1", Str("3")), Info("APOE A1", Str("2")),
     Info("APOE A2", Str("4")), Info("Family History", Str("yes")),
     Info("APOE A1/APOE A2", Str("3/4"))}
AssessmentSamples ==
    {Assessment("MMSE", <<Score("MMSCORE", Str("29"))>>),
     Assessment("CDR", <<Score("CDGLOBAL", Str("0.5"))>>),
     Assessment("MMSE and CDR",
                <<Score("CDGLOBAL", Str("1")), Score("MMSCORE", Str("21"))>>),
     Assessment("NPI-Q", <<>>),
     Assessment("FAQ", <<Score("FAQTOTAL", Str("n.a."))>>),
     Assessment("GDS", <<Score("GDTOTAL", Str("1"))>>)}
ProtocolSamples ==
    {Protocol("TE", Str("3.0"), TRUE, TRUE),
     Protocol("TR", None, TRUE, TRUE),
     Protocol("Manufacturer", Str("SIEMENS"), TRUE, FALSE),
     Protocol("Number of Rows", Str("256.0"), FALSE, TRUE),
     Protocol("Radiopharmaceutical", Str("18F-FDG"), FALSE, TRUE),
     Protocol("Flip Angle", Str("eight"), TRUE, TRUE)}
ProvenanceSamples ==
    {Provenance(Elem(Str("N3")), Elem(Str("FreeSurfer"))),
     Provenance(Elem(Str("GradWarp")), Elem(None)),
     Provenance(Elem(Str("B1")), None)}

\* documents with one repeated element varied
ListDocs ==
    {[EmptyDoc EXCEPT !.subjectInfo = q] : q \in SeqsUpTo(InfoSamples, MaxItems)}
    \cup {[EmptyDoc EXCEPT !.assessment = q] :
             q \in SeqsUpTo(AssessmentSamples, MaxItems)}
    \cup {[EmptyDoc EXCEPT !.protocol = q] :
             q \in SeqsUpTo(ProtocolSamples, MaxItems)}
    \cup {[EmptyDoc EXCEPT !.provenanceDetail = q] :
             q \in SeqsUpTo(ProvenanceSamples, MaxItems)}

ParseDocs ==
    ScalarDocs \cup ListDocs \cup {[EmptyDoc EXCEPT !.wellformed = FALSE]}

File(path, root) == [path |-> path, root |-> root]

ParseInit ==
    /\ MainIdle /\ ClassifyIdle
    /\ px_doc \in {File("ADNI_MRI_metadata/ADNI_002_S_0295_MPR_S13722.xml", r) :
                      r \in ParseDocs}
    /\ px_result = Pending

Parse ==
    /\ px_result = Pending
    /\ px_result' = parse_xml_metadata(px_doc.path, px_doc.root)
    /\ UNCHANGED <<px_doc, main_vars, cl_vars>>

ParseNext == Parse
SpecParse == ParseInit /\ [][ParseNext]_vars

Built == px_result # Pending /\ px_result # None

\* the schema's fields and, for a document, whether a field's source
\* element occurs in it
SchemaFields ==
    {"subject_id", "research_group", "gender", "age", "weight_kg", "apoe_a1",
     "apoe_a2", "visit_type", "modality", "scan_date", "series_id",
     "mmse_score", "cdr_score", "npi_score", "faq_score", "te_ms", "tr_ms",
     "slice_thickness_mm", "flip_angle", "manufacturer", "device_model",
     "field_strength_t", "radiopharmaceutical", "num_rows", "num_columns",
     "num_slices", "pixel_spacing_x", "pixel_spacing_y",
     "reconstruction_method", "processing_label", "processing_steps"}
SomeInfo(root, m) ==
    \E i \in 1..Len(root.subjectInfo) : Contains(root.subjectInfo[i].item, m)
SomeAssessment(root, m) ==
    \E i \in 1..Len(root.assessment) : Contains(root.assessment[i].name, m)
SomeProtocol(root, term) ==
    \E i \in 1..Len(root.protocol) : root.protocol[i].term = term
SourcePresent(root, f) ==
    CASE f = "subject_id" -> root.subjectIdentifier # None
      [] f = "research_group" -> root.researchGroup # None
      [] f = "gender" -> root.subjectSex # None
      [] f = "age" -> root.subjectAge # None
      [] f = "weight_kg" -> root.weightKg # None
      [] f = "apoe_a1" -> SomeInfo(root, "APOE A1")
      [] f = "apoe_a2" -> SomeInfo(root, "APOE A2")
      [] f = "visit_type" -> root.visitIdentifier # None
      [] f = "modality" -> root.modality # None
      [] f = "scan_date" -> root.dateAcquired # None
      [] f = "series_id" -> root.seriesIdentifier # None
      [] f = "mmse_score" -> SomeAssessment(root, "MMSE")
      [] f = "cdr_score" -> SomeAssessment(root, "CDR")
      [] f = "npi_score" -> SomeAssessment(root, "NPI")
      [] f = "faq_score" -> SomeAssessment(root, "FAQ")
      [] f = "te_ms" -> SomeProtocol(root, "TE")
      [] f = "tr_ms" -> SomeProtocol(root, "TR")
      [] f = "slice_thickness_mm" -> SomeProtocol(root, "Slice Thickness")
      [] f = "flip_angle" -> SomeProtocol(root, "Flip Angle")
      [] f = "manufacturer" -> SomeProtocol(root, "Manufacturer")
      [] f = "device_model" -> SomeProtocol(root, "Mfg Model")
      [] f = "field_strength_t" -> SomeProtocol(root, "Field Strength")
      [] f = "radiopharmaceutical" -> SomeProtocol(root, "Radiopharmaceutical")
      [] f = "num_rows" -> SomeProtocol(root, "Number of Rows")
      [] f = "num_columns" -> SomeProtocol(root, "Number of Columns")
      [] f = "num_slices" -> SomeProtocol(root, "Number of Slices")
      [] f = "pixel_spacing_x" -> SomeProtocol(root, "Pixel Spacing X")
      [] f = "pixel_spacing_y" -> SomeProtocol(root, "Pixel Spacing Y")
      [] f = "reconstruction_method" -> SomeProtocol(root, "Reconstruction")
      [] f = "processing_label" -> root.processedDataLabel # None
      [] f = "processing_steps" -> root.provenanceDetail # <<>>
\* what a record shows for a field: its value, or that the key is missing
MissingKey == [t |-> "KeyError"]
Shown(record, f) == IF f \in DOMAIN record THEN record[f] ELSE MissingKey

\* C6: in every record built, all the schema fields whose source element is
\* absent from the document show one and the same absence marker.
C6_UniformAbsenceMarker ==
    Built =>
        \A f, g \in {h \in SchemaFields : ~SourcePresent(px_doc.root, h)} :
            Shown(px_result, f) = Shown(px_result, g)

\* the four markers of _extract_clinical_scores and the field of each
ScoreMarkers == {"MMSE", "CDR", "NPI", "FAQ"}
ScoreField(marker) ==
    CASE marker = "MMSE" -> "mmse_score"
      [] marker = "CDR" -> "cdr_score"
      [] marker = "NPI" -> "npi_score"
      [] marker = "FAQ" -> "faq_score"

\* C11 as stated: in every record built, for every assessment of the
\* document and every marker among MMSE, CDR, NPI, FAQ that its name
\* contains, the marker's score field is set, also when the name contains
\* more than one marker.
C11_IndependentDispatch ==
    Built =>
        \A i \in 1..Len(px_doc.root.assessment) :
            \A marker \in ScoreMarkers :
                Contains(px_doc.root.assessment[i].name, marker) =>
                    ScoreField(marker) \in DOMAIN px_result

\* the entries whose item names allele 1, allele 2, and allele 2 alone
NamesA1(info) == Contains(info.item, "APOE A1")
NamesA2(info) == Contains(info.item, "APOE A2")
NamesA2Only(info) == NamesA2(info) /\ ~NamesA1(info)
\* the indices of the entries satisfying M, and the last of them
Matching(infos, M(_)) == {i \in 1..Len(infos) : M(infos[i])}
Last(S) == CHOOSE i \in S : \A j \in S : j <= i
\* a key is in the record exactly when an entry satisfies M, and then it
\* holds the text of the last such entry
LastWins(record, key, infos, M(_)) ==
    /\ key \in DOMAIN record <=> Matching(infos, M) # {}
    /\ Matching(infos, M) # {} =>
           record[key] = infos[Last(Matching(infos, M))].text

\* C12 as stated: apoe_a1 is the text of the last subjectInfo entry whose
\* item contains "APOE A1", apoe_a2 that of the last entry whose item
\* contains "APOE A2", and either key is in the record only if such an entry
\* exists.
C12_LastContainingWins ==
    Built =>
        /\ LastWins(px_result, "apoe_a1", px_doc.root.subjectInfo, NamesA1)
        /\ LastWins(px_result, "apoe_a2", px_doc.root.subjectInfo, NamesA2)

\* C12 as amended: apoe_a1 is the text of the last entry whose item contains
\* "APOE A1"; apoe_a2 is the text of the last entry whose item contains
\* "APOE A2" and does not contain "APOE A1"; either key is in the record
\* exactly when such an entry exists.
C12_LastWinsA1First ==
    Built =>
        /\ LastWins(px_result, "apoe_a1", px_doc.root.subjectInfo, NamesA1)
        /\ LastWins(px_result, "apoe_a2", px_doc.root.subjectInfo, NamesA2Only)

\* C12's case: two entries for allele 1 with different texts, the record
\* holding the second
C12_Witness ==
    /\ Built
    /\ LET infos == px_doc.root.subjectInfo
       IN /\ Len(infos) >= 2
          /\ NamesA1(infos[1]) /\ NamesA1(infos[2])
          /\ infos[1].text # infos[2].text
          /\ px_result["apoe_a1"] = infos[2].text
          /\ "apoe_a2" \notin DOMAIN px_result

---------------------------------------------------------------------------
(* The file system the runs read                                           *)
(*                                                                         *)
(* Tree lists the directories in os.walk order, each with its files in     *)
(* listing order.  BasePath is self.base_path; the directories under it    *)
(* exist only if it does (base_exists).                                    *)

BasePath == "/data"

StartsWith(s, q) == Len(q) <= Len(s) /\ SubSeq(s, 1, Len(q)) = q
EndsWith(s, q) == Len(q) <= Len(s) /\ SubSeq(s, Len(s) - Len(q) + 1, Len(s)) = q

\* a subject's document: sex and, unless age is "", the age text
Subject(sex, age) ==
    [EmptyDoc EXCEPT !.subjectIdentifier = Elem(Str("002_S_0295")),
                     !.subjectSex = Elem(Str(sex)),
                     !.subjectAge = IF age = "" THEN None ELSE Elem(Str(age))]
Malformed == [EmptyDoc EXCEPT !.wellformed = FALSE]
Entry(name, root) == [name |-> name, root |-> root]
Dir(dir, files) == [dir |-> dir, files |-> files]

Tree ==
    <<Dir("/data/Empty", <<Entry("README.txt", Malformed)>>),
      Dir("/data/Metainformation/ADNI1",
          <<Entry("ADNI_FDG_I100.xml", Subject("M", "60")),
            Entry("ADNI_FDG_I101.xml", Subject("F", "abc")),
            Entry("ADNI_FDG_I102.xml", Subject("M", "70")),
            Entry("ADNI_MPRAGE_I103.xml", Subject("F", "0")),
            Entry("ADNI_FDG_I104.xml", Subject("F", "80"))>>),
      Dir("/data/Metainformation/ADNI2",
          <<Entry("ADNI_T2_I200.xml", Malformed),
            Entry("ADNI_FDG_I201.xml", Subject("M", "0")),
            Entry("ADNI_MPR_FLAIR_I202.xml", Subject("M", ""))>>),
      Dir("/data/ADNI_PET_metadata",
          <<Entry("ADNI_AV45_I300.xml", Subject("F", "72.5")),
            Entry("notes.txt", Malformed),
            Entry("ADNI_AV45_I301.xml", Subject("M", "60"))>>),
      Dir("/data/ADNI_MRI_metadata", <<Entry("index.csv", Malformed)>>),
      Dir("/data/ADNI_MRI_metadata/ADNI",
          <<Entry("ADNI_MPRAGE_I400.xml", Subject("F", "")),
            Entry("ADNI_MPRAGE_I401.xml", Subject("M", ""))>>),
      Dir("/mnt/scans/s1",
          <<Entry("ADNI_FDG_I501.xml", Subject("M", "60")),
            Entry("ADNI_MPRAGE_I502.xml", Subject("F", "70"))>>),
      Dir("/mnt/scans/s2",
          <<Entry("ADNI_FDG_I503.xml", Subject("M", "70")),
            Entry("ADNI_MPRAGE_I504.xml", Subject("F", "70"))>>),
      Dir("/mnt/scans/s3",
          <<Entry("ADNI_FDG_I505.xml", Subject("F", "80")),
            Entry("ADNI_MPRAGE_I506.xml", Subject("F", "70"))>>),
      Dir("/mnt/scans/s4",
          <<Entry("ADNI_FDG_I507.xml", Subject("M", "60")),
            Entry("ADNI_MPRAGE_I508.xml", Subject("F", "70"))>>),
      Dir("/mnt/scans/s5",
          <<Entry("ADNI_FDG_I509.xml", Subject("M", "60")),
            Entry("ADNI_MPRAGE_I510.xml", Subject("F", "70"))>>),
      Dir("/mnt/scans/s6",
          <<Entry("ADNI_FDG_I511.xml", Subject("M", "60")),
            Entry("ADNI_MPRAGE_I512.xml", Subject("F", "70"))>>)>>

\* the directories of Tree that are there, given base_exists
Visible(base_ok, d) == StartsWith(d.dir, BasePath \o "/") => base_ok

\* Path.exists()
Exists(base_ok, path) ==
    \/ path = BasePath /\ base_ok
    \/ \E i \in 1..Len(Tree) :
          /\ Visible(base_ok, Tree[i])
          /\ Tree[i].dir = path \/ StartsWith(Tree[i].dir, path \o "/")

\* Path.is_absolute()
is_absolute(folder) == StartsWith(folder, "/")

_resolve_folder_path(base_ok, folder_input) ==
    IF is_absolute(folder_input) THEN folder_input
    ELSE LET resolved_path == BasePath \o "/" \o folder_input
             adni_subpath == resolved_path \o "/" \o "ADNI"
         IN IF Exists(base_ok, resolved_path) THEN resolved_path
            ELSE IF Exists(base_ok, adni_subpath) THEN adni_subpath
            ELSE resolved_path

\* the os.walk loop of _find_xml_folders over Tree[i..]
RECURSIVE WalkFrom(_, _, _)
WalkFrom(base_ok, base_dir, i) ==
    IF i > Len(Tree) THEN <<>>
    ELSE LET d == Tree[i]
             under == d.dir = base_dir \/ StartsWith(d.dir, base_dir \o "/")
             xml == \E k \in 1..Len(d.files) : EndsWith(d.files[k].name, ".xml")
         IN (IF Visible(base_ok, d) /\ under /\ xml THEN <<d.dir>> ELSE <<>>)
            \o WalkFrom(base_ok, base_dir, i + 1)

_find_xml_folders(base_ok, base_dir) ==
    IF ~Exists(base_ok, base_dir) THEN <<>>
    ELSE WalkFrom(base_ok, base_dir, 1)

\* list(folder.glob("*.xml")): the XML files of a leaf folder, as files
RECURSIVE GlobFrom(_, _, _)
GlobFrom(dir, files, k) ==
    IF k > Len(files) THEN <<>>
    ELSE (IF EndsWith(files[k].name, ".xml")
          THEN <<File(dir \o "/" \o files[k].name, files[k].root)>>
          ELSE <<>>) \o GlobFrom(dir, files, k + 1)

glob_xml(folder) ==
    LET i == CHOOSE j \in 1..Len(Tree) : Tree[j].dir = folder
    IN GlobFrom(folder, Tree[i].files, 1)

---------------------------------------------------------------------------
(* main(): process_metadata_folders, then create_detailed_excel, then the  *)
(* final line                                                              *)

MaxCap == 2
MaxSelectors == 2

\* what --folders may name: relative and absolute, with and without XML
Selectors ==
    {"Metainformation", "ADNI_PET_metadata", "ADNI_MRI_metadata", "/mnt/scans",
     "ADNI3_metadata", "Empty"}
OutputName == "adni_metadata.xlsx"

MainInit ==
    /\ ClassifyIdle /\ ParseIdle
    /\ runs = 1
    /\ pc = "start"
    /\ base_exists \in BOOLEAN
    /\ max_files_per_type \in {None} \cup {IntV(c) : c \in 0..MaxCap}
    /\ selected_folders \in
           {None} \cup {List(q) : q \in SeqsUpTo(Selectors, MaxSelectors)}
    /\ sel_idx = 0 /\ folders_to_process = <<>> /\ invalid_folders = <<>>
    /\ folder_idx = 0 /\ xml_files = <<>> /\ file_idx = 1
    /\ type_counts = EmptyDict /\ processed_count = 0
    /\ scan_type_data = EmptyDict
    /\ parse_calls = <<>> /\ classify_calls = <<>> /\ skipped = <<>>
    /\ raised = FALSE /\ writer_opened = FALSE /\ file_created = FALSE
    /\ summary_data = EmptyDict /\ output_file = Pending /\ printed = ""

walk_vars == <<folder_idx, xml_files, file_idx, type_counts, processed_count,
               scan_type_data, parse_calls, classify_calls, skipped>>
report_vars == <<writer_opened, file_created, summary_data, output_file, printed>>
input_vars == <<runs, base_exists, max_files_per_type, selected_folders>>

\* line 391, "if selected_folders:", taken
StartSelected ==
    /\ pc = "start"
    /\ Truthy(selected_folders)
    /\ pc' = "resolve" /\ sel_idx' = 1
    /\ UNCHANGED <<input_vars, folders_to_process, invalid_folders, walk_vars,
                   raised, report_vars, cl_vars, px_vars>>

\* lines 429-445: no selector given
AutoSearch ==
    /\ pc = "start"
    /\ ~Truthy(selected_folders)
    /\ LET metainfo_path == BasePath \o "/" \o "Metainformation"
           pet == BasePath \o "/" \o "ADNI_PET_metadata"
           mri == BasePath \o "/" \o "ADNI_MRI_metadata"
           found(path) == IF Exists(base_exists, path)
                          THEN _find_xml_folders(base_exists, path) ELSE <<>>
       IN folders_to_process' = found(metainfo_path) \o found(pet) \o found(mri)
    /\ pc' = "walk"
    /\ UNCHANGED <<input_vars, sel_idx, invalid_folders, walk_vars, raised,
                   report_vars, cl_vars, px_vars>>

\* lines 396-411: one selector of the resolution loop
ResolveSelector ==
    /\ pc = "resolve" /\ sel_idx <= Len(selected_folders.v)
    /\ LET folder_input == selected_folders.v[sel_idx]
           folder_path == _resolve_folder_path(base_exists, folder_input)
           xml_folders == _find_xml_folders(base_exists, folder_path)
       IN IF xml_folders # <<>>
          THEN /\ folders_to_process' = folders_to_process \o xml_folders
               /\ UNCHANGED invalid_folders
          ELSE /\ invalid_folders' = Append(invalid_folders, folder_input)
               /\ UNCHANGED folders_to_process
    /\ sel_idx' = sel_idx + 1
    /\ UNCHANGED <<pc, input_vars, walk_vars, raised, report_vars, cl_vars,
                   px_vars>>

\* _suggest_similar_folders: base_path.iterdir() raises when base_path is
\* not there; the suggestions themselves are only logged
_suggest_similar_folders(base_ok, target_folder_name) ==
    IF ~base_ok THEN Raise ELSE None

\* lines 414-423 with an invalid selector and no base_path: the exception
\* leaves process_metadata_folders and main
SuggestRaises ==
    /\ pc = "resolve" /\ sel_idx > Len(selected_folders.v)
    /\ invalid_folders # <<>>
    /\ _suggest_similar_folders(base_exists, invalid_folders[1]) = Raise
    /\ raised' = TRUE /\ pc' = "crashed"
    /\ UNCHANGED <<input_vars, sel_idx, folders_to_process, invalid_folders,
                   walk_vars, report_vars, cl_vars, px_vars>>

SuggestionsLogged ==
    \A i \in 1..Len(invalid_folders) :
        _suggest_similar_folders(base_exists, invalid_folders[i]) # Raise

\* lines 425-427: nothing to process, return to main
NoValidFolders ==
    /\ pc = "resolve" /\ sel_idx > Len(selected_folders.v)
    /\ SuggestionsLogged
    /\ folders_to_process = <<>>
    /\ pc' = "excel"
    /\ UNCHANGED <<input_vars, sel_idx, folders_to_process, invalid_folders,
                   walk_vars, raised, report_vars, cl_vars, px_vars>>

\* line 447: the walk begins
BeginWalk ==
    /\ pc = "resolve" /\ sel_idx > Len(selected_folders.v)
    /\ SuggestionsLogged
    /\ folders_to_process # <<>>
    /\ pc' = "walk"
    /\ UNCHANGED <<input_vars, sel_idx, folders_to_process, invalid_folders,
                   walk_vars, raised, report_vars, cl_vars, px_vars>>

\* the inner loop has no file left (or was left by break)
InnerDone == file_idx > Len(xml_files)
\* type_counts[scan_type] read from the defaultdict
Count(counts, scan_type) ==
    IF scan_type \in DOMAIN counts THEN counts[scan_type] ELSE 0
\* the defaultdict after type_counts[scan_type] was read
Touched(counts, scan_type) ==
    IF scan_type \in DOMAIN counts THEN counts ELSE SetItem(counts, scan_type, 0)
\* self.scan_type_data[scan_type]
Bucket(data, scan_type) ==
    IF scan_type \in DOMAIN data THEN data[scan_type] ELSE <<>>

\* lines 465-466 with ">" for ">="
CeilingReached_late ==
    /\ max_files_per_type # None
    /\ processed_count > max_files_per_type.v * 10
\* lines 465-466
CeilingReached ==
    /\ max_files_per_type # None
    /\ processed_count >= max_files_per_type.v * 10

\* lines 473-474 with the cap test dropped
CapReached_never(scan_type) == FALSE
\* lines 473-474
CapReached(scan_type) ==
    /\ max_files_per_type # None
    /\ Count(type_counts, scan_type) >= max_files_per_type.v

\* the defaultdict after the test of lines 473-474 was evaluated
AfterCapTest(scan_type) ==
    IF max_files_per_type # None THEN Touched(type_counts, scan_type)
    ELSE type_counts

\* lines 449-461: the next leaf folder (every folder found by the walk is
\* still there, so line 450 never skips one)
NextFolder ==
    /\ pc = "walk" /\ InnerDone
    /\ folder_idx < Len(folders_to_process)
    /\ folder_idx' = folder_idx + 1
    /\ xml_files' = glob_xml(folders_to_process[folder_idx + 1])
    /\ file_idx' = 1
    /\ type_counts' = EmptyDict
    /\ UNCHANGED <<pc, input_vars, sel_idx, folders_to_process, invalid_folders,
                   processed_count, scan_type_data, parse_calls, classify_calls,
                   skipped, raised, report_vars, cl_vars, px_vars>>

\* lines 465-468: the run ceiling ends the folder's loop
CeilingBreak ==
    /\ pc = "walk" /\ ~InnerDone
    /\ CeilingReached
    /\ file_idx' = Len(xml_files) + 1
    /\ UNCHANGED <<pc, input_vars, sel_idx, folders_to_process, invalid_folders,
                   folder_idx, xml_files, type_counts, processed_count,
                   scan_type_data, parse_calls, classify_calls, skipped, raised,
                   report_vars, cl_vars, px_vars>>

\* lines 470-475: the file's type is at its cap
CapSkip ==
    /\ pc = "walk" /\ ~InnerDone
    /\ ~CeilingReached
    /\ LET xml_file == xml_files[file_idx]
           scan_type == extract_scan_type(xml_file.path)
       IN /\ CapReached(scan_type)
          /\ classify_calls' = Append(classify_calls, xml_file.path)
          /\ skipped' = Append(skipped, xml_file.path)
          /\ type_counts' = AfterCapTest(scan_type)
    /\ file_idx' = file_idx + 1
    /\ UNCHANGED <<pc, input_vars, sel_idx, folders_to_process, invalid_folders,
                   folder_idx, xml_files, processed_count, scan_type_data,
                   parse_calls, raised, report_vars, cl_vars, px_vars>>

\* lines 470-479 with the counters moved although the parse failed
ParseFails_counted ==
    /\ pc = "walk" /\ ~InnerDone
    /\ ~CeilingReached
    /\ LET xml_file == xml_files[file_idx]
           scan_type == extract_scan_type(xml_file.path)
           metadata == parse_xml_metadata(xml_file.path, xml_file.root)
       IN /\ ~CapReached(scan_type)
          /\ ~Truthy(metadata)
          /\ classify_calls' = Append(classify_calls, xml_file.path)
          /\ parse_calls' = Append(parse_calls, xml_file.path)
          /\ type_counts' = SetItem(type_counts, scan_type,
                                    Count(type_counts, scan_type) + 1)
    /\ file_idx' = file_idx + 1
    /\ processed_count' = processed_count + 1
    /\ UNCHANGED <<pc, input_vars, sel_idx, folders_to_process, invalid_folders,
                   folder_idx, xml_files, scan_type_data, skipped, raised,
                   report_vars, cl_vars, px_vars>>

\* lines 470-479: the file is parsed and parse_xml_metadata returns None
ParseFails ==
    /\ pc = "walk" /\ ~InnerDone
    /\ ~CeilingReached
    /\ LET xml_file == xml_files[file_idx]
           scan_type == extract_scan_type(xml_file.path)
           metadata == parse_xml_metadata(xml_file.path, xml_file.root)
       IN /\ ~CapReached(scan_type)
          /\ ~Truthy(metadata)
          /\ classify_calls' = Append(classify_calls, xml_file.path)
          /\ parse_calls' = Append(parse_calls, xml_file.path)
          /\ type_counts' = AfterCapTest(scan_type)
    /\ file_idx' = file_idx + 1
    /\ UNCHANGED <<pc, input_vars, sel_idx, folders_to_process, invalid_folders,
                   folder_idx, xml_files, processed_count, scan_type_data,
                   skipped, raised, report_vars, cl_vars, px_vars>>

\* lines 470-485 with the record put at the front of its bucket
AddRecord_prepend ==
    /\ pc = "walk" /\ ~InnerDone
    /\ ~CeilingReached
    /\ LET xml_file == xml_files[file_idx]
           scan_type == extract_scan_type(xml_file.path)
           metadata == parse_xml_metadata(xml_file.path, xml_file.root)
       IN /\ ~CapReached(scan_type)
          /\ Truthy(metadata)
          /\ classify_calls' = Append(classify_calls, xml_file.path)
          /\ parse_calls' = Append(parse_calls, xml_file.path)
          /\ scan_type_data' =
                 SetItem(scan_type_data, scan_type,
                         <<metadata>> \o Bucket(scan_type_data, scan_type))
          /\ type_counts' = SetItem(type_counts, scan_type,
                                    Count(type_counts, scan_type) + 1)
    /\ processed_count' = processed_count + 1
    /\ file_idx' = file_idx + 1
    /\ UNCHANGED <<pc, input_vars, sel_idx, folders_to_process, invalid_folders,
                   folder_idx, xml_files, skipped, raised, report_vars, cl_vars,
                   px_vars>>

\* lines 470-485: the file is parsed and its record joins its bucket
AddRecord ==
    /\ pc = "walk" /\ ~InnerDone
    /\ ~CeilingReached
    /\ LET xml_file == xml_files[file_idx]
           scan_type == extract_scan_type(xml_file.path)
           metadata == parse_xml_metadata(xml_file.path, xml_file.root)
       IN /\ ~CapReached(scan_type)
          /\ Truthy(metadata)
          /\ classify_calls' = Append(classify_calls, xml_file.path)
          /\ parse_calls' = Append(parse_calls, xml_file.path)
          /\ scan_type_data' =
                 SetItem(scan_type_data, scan_type,
                         Append(Bucket(scan_type_data, scan_type), metadata))
          /\ type_counts' = SetItem(type_counts, scan_type,
                                    Count(type_counts, scan_type) + 1)
    /\ processed_count' = processed_count + 1
    /\ file_idx' = file_idx + 1
    /\ UNCHANGED <<pc, input_vars, sel_idx, folders_to_process, invalid_folders,
                   folder_idx, xml_files, skipped, raised, report_vars, cl_vars,
                   px_vars>>

\* lines 487-491: the walk is over, back in main at line 605
FinishRun ==
    /\ pc = "walk" /\ InnerDone
    /\ folder_idx >= Len(folders_to_process)
    /\ pc' = "excel"
    /\ UNCHANGED <<input_vars, sel_idx, folders_to_process, invalid_folders,
                   walk_vars, raised, report_vars, cl_vars, px_vars>>

---------------------------------------------------------------------------
(* create_detailed_excel *)

\* a / b to the nearest integer, an exact tie going to the even one: what
\* round(x, 1) and format(x, ".1f") do to the quotients met here, whose
\* ties are exact binary fractions
RoundDiv(a, b) ==
    LET q == a \div b
        r == a % b
    IN IF 2 * r < b THEN q
       ELSE IF 2 * r > b THEN q + 1
       ELSE IF q % 2 = 0 THEN q ELSE q + 1

\* str(n) for a natural number
RECURSIVE ToStr(_)
ToStr(n) == IF n < 10 THEN Digits[n + 1] ELSE ToStr(n \div 10) \o Digits[(n % 10) + 1]

\* line 533: [d['age'] for d in data_list if d.get('age')]
RECURSIVE Ages(_)
Ages(data_list) ==
    IF data_list = <<>> THEN <<>>
    ELSE (IF Truthy(Get(Head(data_list), "age"))
          THEN <<Head(data_list)["age"]>> ELSE <<>>) \o Ages(Tail(data_list))

\* sum(ages), in tenths
RECURSIVE Sum(_)
Sum(ages) == IF ages = <<>> THEN 0 ELSE Head(ages).v + Sum(Tail(ages))

\* sum(1 for d in data_list if d.get(key) == value)
RECURSIVE CountEq(_, _, _)
CountEq(data_list, key, value) ==
    IF data_list = <<>> THEN 0
    ELSE (IF Get(Head(data_list), key) = Str(value) THEN 1 ELSE 0)
         + CountEq(Tail(data_list), key, value)

\* lines 531-553: the summary row of one scan type
SummaryRow(scan_type, data_list) ==
    LET ages == Ages(data_list)
        avg_age == IF ages # <<>> THEN Float(RoundDiv(Sum(ages), Len(ages)))
                   ELSE Str("N/A")
        male_count == CountEq(data_list, "gender", "M")
        permille == RoundDiv(male_count * 1000, Len(data_list))
        male_ratio == IF data_list # <<>>
                      THEN Str(ToStr(permille \div 10) \o "."
                               \o ToStr(permille % 10) \o "%")
                      ELSE Str("N/A")
    IN [scan_type |-> Str(scan_type),
        data_count |-> IntV(Len(data_list)),
        average_age |-> avg_age,
        male_ratio |-> male_ratio,
        ad_patients |-> IntV(CountEq(data_list, "research_group", "AD")),
        mci_patients |-> IntV(CountEq(data_list, "research_group", "MCI")),
        cn_patients |-> IntV(CountEq(data_list, "research_group", "CN"))]

\* create_detailed_excel without the test of lines 509-511
create_detailed_excel_unguarded(data, name, io_ok) ==
    IF ~io_ok
    THEN [ret |-> None, opened |-> FALSE, created |-> FALSE, summary |-> EmptyDict]
    ELSE [ret |-> Str(name), opened |-> TRUE, created |-> TRUE,
          summary |-> [t \in DOMAIN data |-> SummaryRow(t, data[t])]]

\* create_detailed_excel: what it returns, whether it opened the writer,
\* whether the workbook exists afterwards, and the summary sheet's rows
\* (by scan type).  io_ok: whether the output target can be created.
create_detailed_excel(data, name, io_ok) ==
    IF DOMAIN data = {}
    THEN [ret |-> None, opened |-> FALSE, created |-> FALSE, summary |-> EmptyDict]
    ELSE IF ~io_ok
    THEN [ret |-> None, opened |-> FALSE, created |-> FALSE, summary |-> EmptyDict]
    ELSE [ret |-> Str(name), opened |-> TRUE, created |-> TRUE,
          summary |-> [t \in DOMAIN data |-> SummaryRow(t, data[t])]]

\* main, line 605
CreateExcel ==
    /\ pc = "excel"
    /\ \E io_ok \in BOOLEAN :
          LET out == create_detailed_excel(scan_type_data, OutputName, io_ok)
          IN /\ output_file' = out.ret
             /\ writer_opened' = out.opened
             /\ file_created' = out.created
             /\ summary_data' = out.summary
    /\ pc' = "print"
    /\ UNCHANGED <<input_vars, sel_idx, folders_to_process, invalid_folders,
                   walk_vars, raised, printed, cl_vars, px_vars>>

SuccessLine == "Detailed analysis completed! Result file: "
FailureLine == "Excel file creation failed."

\* main, lines 607-616
PrintResult ==
    /\ pc = "print"
    /\ printed' = IF Truthy(output_file) THEN SuccessLine \o output_file.v
                  ELSE FailureLine
    /\ pc' = "done"
    /\ UNCHANGED <<input_vars, sel_idx, folders_to_process, invalid_folders,
                   walk_vars, raised, writer_opened, file_created, summary_data,
                   output_file, cl_vars, px_vars>>

Next ==
    \/ StartSelected \/ AutoSearch \/ ResolveSelector \/ SuggestRaises
    \/ NoValidFolders \/ BeginWalk \/ NextFolder \/ CeilingBreak \/ CapSkip
    \/ ParseFails \/ AddRecord \/ FinishRun \/ CreateExcel \/ PrintResult

Spec == MainInit /\ [][Next]_vars

---------------------------------------------------------------------------
(* One extractor, process_metadata_folders called several times: the       *)
(* counters are the call's own, self.scan_type_data is the extractor's     *)

MaxRuns == 2

\* the arguments of a call
RunSelections ==
    {None, List(<<"Metainformation">>), List(<<"/mnt/scans">>),
     List(<<"ADNI3_metadata">>),
     List(<<"ADNI_PET_metadata", "ADNI_MRI_metadata">>)}
RunCaps == {None, IntV(0), IntV(1)}

RunsInit ==
    /\ ClassifyIdle /\ ParseIdle
    /\ runs = 1
    /\ pc = "start"
    /\ base_exists \in BOOLEAN
    /\ max_files_per_type \in RunCaps
    /\ selected_folders \in RunSelections
    /\ sel_idx = 0 /\ folders_to_process = <<>> /\ invalid_folders = <<>>
    /\ folder_idx = 0 /\ xml_files = <<>> /\ file_idx = 1
    /\ type_counts = EmptyDict /\ processed_count = 0
    /\ scan_type_data = EmptyDict
    /\ parse_calls = <<>> /\ classify_calls = <<>> /\ skipped = <<>>
    /\ raised = FALSE /\ writer_opened = FALSE /\ file_created = FALSE
    /\ summary_data = EmptyDict /\ output_file = Pending /\ printed = ""

\* the call returned (line 427 or after line 491) or an exception left it:
\* the next call on the same extractor starts with its own arguments and
\* locals (lines 375, 393-394, 447, 461); self.scan_type_data (line 41) is
\* set once, by __init__
NextRun ==
    /\ pc \in {"excel", "crashed"}
    /\ runs < MaxRuns
    /\ runs' = runs + 1
    /\ pc' = "start"
    /\ max_files_per_type' \in RunCaps
    /\ selected_folders' \in RunSelections
    /\ sel_idx' = 0 /\ folders_to_process' = <<>> /\ invalid_folders' = <<>>
    /\ folder_idx' = 0 /\ xml_files' = <<>> /\ file_idx' = 1
    /\ type_counts' = EmptyDict /\ processed_count' = 0
    /\ parse_calls' = <<>> /\ classify_calls' = <<>> /\ skipped' = <<>>
    /\ raised' = FALSE
    /\ UNCHANGED <<base_exists, scan_type_data, report_vars, cl_vars, px_vars>>

RunsNext ==
    \/ StartSelected \/ AutoSearch \/ ResolveSelector \/ SuggestRaises
    \/ NoValidFolders \/ BeginWalk \/ NextFolder \/ CeilingBreak \/ CapSkip
    \/ ParseFails \/ AddRecord \/ FinishRun \/ NextRun

SpecRuns == RunsInit /\ [][RunsNext]_vars

---------------------------------------------------------------------------
(* Properties of the run *)

Capped == max_files_per_type # None
WalkOver == pc \in {"excel", "print", "done"}
Reported == pc \in {"print", "done"}
CurrentFile == xml_files[file_idx]
Visiting == pc = "walk" /\ ~InnerDone
Parses(f) == parse_xml_metadata(f.path, f.root) # None

RECURSIVE FilesOf(_)
\* the XML files of a list of leaf folders, in walk order
FilesOf(folders) ==
    IF folders = <<>> THEN <<>>
    ELSE glob_xml(Head(folders)) \o FilesOf(Tail(folders))

\* how many parseable files of a scan type the run's folders hold
Available(scan_type) ==
    Cardinality({i \in 1..Len(FilesOf(folders_to_process)) :
        LET f == FilesOf(folders_to_process)[i]
        IN extract_scan_type(f.path) = scan_type /\ Parses(f)})

RECURSIVE TotalRecords(_, _)
TotalRecords(data, types) ==
    IF types = {} THEN 0
    ELSE LET t == CHOOSE x \in types : TRUE
         IN Len(data[t]) + TotalRecords(data, types \ {t})

\* C1 as stated: after a run with cap c no bucket holds more than c records,
\* and a scan type with at least c parseable files among the run's leaf
\* folders has exactly c records in its bucket.
C1_ExactlyCapPerType ==
    (WalkOver /\ Capped) =>
        \A t \in Vocabulary :
            /\ Len(Bucket(scan_type_data, t)) <= max_files_per_type.v
            /\ Available(t) >= max_files_per_type.v =>
                   Len(Bucket(scan_type_data, t)) = max_files_per_type.v

\* C2: with cap c the run adds at most 10*c records in all, and once the
\* processed count has reached 10*c no file is classified, parsed or added
\* any more.
C2_RunCeiling ==
    /\ [](Capped =>
            /\ processed_count <= 10 * max_files_per_type.v
            /\ TotalRecords(scan_type_data, DOMAIN scan_type_data)
                   <= 10 * max_files_per_type.v)
    /\ [][(Capped /\ processed_count >= 10 * max_files_per_type.v) =>
             /\ classify_calls' = classify_calls
             /\ parse_calls' = parse_calls
             /\ scan_type_data' = scan_type_data
             /\ processed_count' = processed_count]_vars

\* C2's case: cap 1, ten records added, and files of the run's folders left
\* unvisited when the walk ended
C2_Witness ==
    /\ WalkOver /\ max_files_per_type = IntV(1)
    /\ processed_count = 10
    /\ Len(classify_calls) < Len(FilesOf(folders_to_process))

\* C3: a file whose parse fails adds no record, moves neither the processed
\* counter nor any per-type counter, and only advances the folder's loop to
\* the next file, so the rest of the walk goes on from the state it would
\* have had without the file.
C3_ParseFailureContained ==
    [][(Visiting /\ parse_calls' # parse_calls /\ ~Parses(CurrentFile)) =>
          /\ scan_type_data' = scan_type_data
          /\ processed_count' = processed_count
          /\ \A t \in Vocabulary : Count(type_counts', t) = Count(type_counts, t)
          /\ file_idx' = file_idx + 1
          /\ pc' = "walk"
          /\ UNCHANGED <<xml_files, folder_idx, folders_to_process, raised>>]_vars

\* C3's case: in one folder a file failed to parse and a later file's record
\* has just joined its bucket
C3_Witness ==
    /\ pc = "walk" /\ file_idx > 2 /\ file_idx - 1 <= Len(xml_files)
    /\ \E i \in 1..(file_idx - 2) :
          /\ ~Parses(xml_files[i])
          /\ \E k \in 1..Len(parse_calls) : parse_calls[k] = xml_files[i].path
    /\ LET f == xml_files[file_idx - 1]
           bucket == Bucket(scan_type_data, extract_scan_type(f.path))
       IN /\ bucket # <<>>
          /\ bucket[Len(bucket)] = parse_xml_metadata(f.path, f.root)
          /\ parse_calls[Len(parse_calls)] = f.path

\* the leaf folders of all the selectors, in order
RECURSIVE AllLeaves(_)
AllLeaves(selectors) ==
    IF selectors = <<>> THEN <<>>
    ELSE _find_xml_folders(base_exists,
                           _resolve_folder_path(base_exists, Head(selectors)))
         \o AllLeaves(Tail(selectors))
NoLeaves(selector) ==
    _find_xml_folders(base_exists,
                      _resolve_folder_path(base_exists, selector)) = <<>>
RunEnded == pc \in {"crashed", "excel", "print", "done"}

\* C8 as stated: in a run with selectors, when the run has ended every
\* selector without leaf folders is recorded as invalid, every leaf folder of
\* every other selector has been walked, and a run that walked no folder had
\* no selector with a leaf folder and left the buckets as they were.
C8_InvalidSelectorContained ==
    (Truthy(selected_folders) /\ RunEnded) =>
        /\ \A i \in 1..Len(selected_folders.v) :
              NoLeaves(selected_folders.v[i]) =>
                  \E k \in 1..Len(invalid_folders) :
                      invalid_folders[k] = selected_folders.v[i]
        /\ folders_to_process = AllLeaves(selected_folders.v)
        /\ folder_idx = Len(folders_to_process)
        /\ folder_idx = 0 =>
               /\ \A i \in 1..Len(selected_folders.v) :
                     NoLeaves(selected_folders.v[i])
               /\ DOMAIN scan_type_data = {}

\* C9: when no record was accumulated, create_detailed_excel returns None
\* without opening the writer or creating the file, and main prints the
\* failure line.
C9_NoOutputFailure ==
    (Reported /\ DOMAIN scan_type_data = {}) =>
        /\ output_file = None
        /\ ~writer_opened /\ ~file_created
        /\ pc = "done" => printed = FailureLine

\* C9's case: a run that walked folders, accumulated nothing and has printed
\* its last line
C9_Witness ==
    /\ pc = "done" /\ DOMAIN scan_type_data = {}
    /\ folder_idx > 0 /\ printed = FailureLine

\* C10: a file visited when its scan type's counter has reached the cap is
\* not parsed and changes neither counters nor buckets.
C10_SkipBeforeParse ==
    [][(/\ Visiting /\ Capped
        /\ Count(type_counts, extract_scan_type(CurrentFile.path))
               >= max_files_per_type.v) =>
          /\ parse_calls' = parse_calls
          /\ type_counts' = type_counts
          /\ processed_count' = processed_count
          /\ scan_type_data' = scan_type_data]_vars

\* C10's case: the cap check has just skipped a parseable file that was
\* never parsed
C10_Witness ==
    /\ pc = "walk" /\ skipped # <<>> /\ file_idx > 1
    /\ file_idx - 1 <= Len(xml_files)
    /\ xml_files[file_idx - 1].path = skipped[Len(skipped)]
    /\ Parses(xml_files[file_idx - 1])
    /\ \A k \in 1..Len(parse_calls) : parse_calls[k] # skipped[Len(skipped)]

\* the ages of the records that have one (age is not None)
RECURSIVE PresentAges(_)
PresentAges(data_list) ==
    IF data_list = <<>> THEN <<>>
    ELSE (IF Get(Head(data_list), "age") # None
          THEN <<Head(data_list)["age"]>> ELSE <<>>)
         \o PresentAges(Tail(data_list))

\* C7 as stated: the summary row of every scan type counts the bucket's
\* records, and its average_age is the mean, to one decimal, of the ages
\* present, 0 included, and 'N/A' exactly when no age is present.
C7_SummaryAverageAge ==
    (Reported /\ output_file # None) =>
        \A t \in DOMAIN scan_type_data :
            LET row == summary_data[t]
                present == PresentAges(scan_type_data[t])
            IN /\ row.data_count = IntV(Len(scan_type_data[t]))
               /\ row.average_age = Str("N/A") <=> present = <<>>
               /\ present # <<>> =>
                      row.average_age
                          = Float(RoundDiv(Sum(present), Len(present)))

\* C13: whatever calls were made on the extractor, every bucket's key is one
\* of the twelve labels and every record in it carries that label as its
\* scan_type; and a step changes a bucket only by appending at its end (no
\* bucket disappears, every bucket was a prefix of what it becomes).
C13_BucketsLabelled ==
    \A L \in DOMAIN scan_type_data :
        /\ L \in Vocabulary
        /\ \A i \in 1..Len(scan_type_data[L]) :
               scan_type_data[L][i]["scan_type"] = Str(L)
C13_AppendOnly ==
    \A L \in DOMAIN scan_type_data :
        /\ L \in DOMAIN scan_type_data'
        /\ Len(scan_type_data'[L]) >= Len(scan_type_data[L])
        /\ SubSeq(scan_type_data'[L], 1, Len(scan_type_data[L]))
               = scan_type_data[L]
C13_BucketConsistency == []C13_BucketsLabelled /\ [][C13_AppendOnly]_vars

\* C13's case: a later call has appended to a bucket an earlier call filled
C13_Witness ==
    /\ runs > 1
    /\ processed_count > 0
    /\ \E L \in DOMAIN scan_type_data \cap DOMAIN type_counts :
           /\ type_counts[L] > 0
           /\ Len(scan_type_data[L]) > processed_count

=============================================================================
